---- MODULE Spec2Model ----
(***************************************************************************)
(* Model of dominant_color_histogram (src/dominant_color_wx.py, 6-40):     *)
(* the histogram pipeline that quantizes every pixel of an image into      *)
(* bins_per_channel^3 bins, selects the most populated bin and returns the *)
(* truncated mean colour of the pixels of that bin.                        *)
(*                                                                         *)
(* One call of the function is one behaviour.  The call's arguments are    *)
(* fixed by Init; each action is one block of statements of the function.  *)
(* A Python exception ends the call in pc = "raised" with the exception's  *)
(* class name in error.                                                    *)
(***************************************************************************)
EXTENDS Integers, Sequences, FiniteSets, TLC

VARIABLES pc, image, bins_per_channel, blur, pixels,
          r_bins, g_bins, b_bins, bin_index,
          unique_bins, counts, dom_bin, rb, gb, bb,
          mask, cluster_pixels, result, error

vars == <<pc, image, bins_per_channel, blur, pixels,
          r_bins, g_bins, b_bins, bin_index,
          unique_bins, counts, dom_bin, rb, gb, bb,
          mask, cluster_pixels, result, error>>

----------------------------------------------------------------------------
(* Bounds of the model *)

\* longest pixel buffer of the main specification
MaxPixels == 3

\* largest bin count of the lattice specification (every bin triple visited)
MaxLatticeBins == 8

(* Program constants *)

\* np.uint8 channel values are 0..ChannelMax
ChannelMax == 255

\* number of channel levels, the 256 of  factor = 256 / bins_per_channel
Levels == 256

\* wx.SpinCtrl(panel, min=4, max=128, initial=32): the supported bin counts
BinMin == 4
BinMax == 128

----------------------------------------------------------------------------
(* Inputs *)

\* colours of the test images: the spec's (200,50,10); two colours that share
\* its bin for some bin counts only; the red/blue pair; white (all 255)
Palette == { <<200, 50, 10>>, <<201, 51, 11>>, <<203, 50, 10>>,
             <<255, 0, 0>>, <<0, 0, 255>>, <<255, 255, 255>> }

\* bin counts tried by the main specification: every supported one, and
\* unsupported ones on both sides of the range
BinsTried == { -1, 0, 1, 3 } \cup (BinMin..BinMax) \cup { BinMax + 1 }

\* bin counts of the order specification: positive ones, in and off the range
OrderBins == { 1, BinMin, 7, 32, BinMax, BinMax + 1 }

Supported(B) == B >= BinMin /\ B <= BinMax

RECURSIVE SeqsUpTo(_, _)
SeqsUpTo(S, n) ==
    IF n = 0 THEN { <<>> }
    ELSE LET shorter == SeqsUpTo(S, n - 1)
         IN  shorter \cup { Append(s, x) : s \in shorter, x \in S }

\* the first channel value of every bin of a channel, and the last value 255
BinEdges(B) == { v \in 0..ChannelMax : v = ChannelMax \/ (v * B) % Levels < B }

----------------------------------------------------------------------------
(* Python / NumPy arithmetic *)

Min(a, b) == IF a < b THEN a ELSE b
Max(a, b) == IF a > b THEN a ELSE b

\* Python's and NumPy's  a // b  (floor division), b # 0
PyFloorDiv(a, b) ==
    IF b > 0 THEN a \div b ELSE (-a) \div (-b)

\* Python's and NumPy's  a % b  (sign of the divisor), b # 0
PyMod(a, b) == a - b * PyFloorDiv(a, b)

\* np.clip(x, lo, hi) = minimum(maximum(x, lo), hi)
Clip(x, lo, hi) == Min(Max(x, lo), hi)

\* (v / factor).astype(int) with factor = 256 / B: the quotient v*B/256
\* truncated toward zero.  The float64 evaluation v / fl(256/B) truncates to
\* the same integer as the exact quotient for every v in 0..255 and every B
\* in -128..185 (the first B where they differ is 186, at v = 128).
TruncQuotient(v, B) ==
    IF B > 0 THEN (v * B) \div Levels ELSE -((v * (-B)) \div Levels)

\* quantizing with a bin width of 255 / B and no clamp
ChannelBinNoClip(v, B) == (v * B) \div ChannelMax

\* lines 14-21 for one channel value: quantize, then clamp to [0, B-1]
ChannelBin(v, B) == Clip(TruncQuotient(v, B), 0, B - 1)

BinIndexNoSquare(r, g, b, B) == r * B + g * B + b

\* lines 23-27: BinIndex = r_bin * B^2 + g_bin * B + b_bin
BinIndexOf(r, g, b, B) == r * (B * B) + g * B + b

\* lines 32-34: the (rb, gb, bb) decoded from a bin index
Decode(bin, B) ==
    << PyFloorDiv(bin, B * B),
       PyMod(PyFloorDiv(bin, B), B),
       PyMod(bin, B) >>

----------------------------------------------------------------------------
(* ImageFilter.GaussianBlur on a one-row image.  The filter is the image    *)
(* library's, not the repository's; it is modelled by what such a filter   *)
(* does: a normalised binomial kernel of radius 2 with replicated edge     *)
(* pixels, rounded to nearest, which keeps the size and the colour depth.  *)

At(img, i) == img[Clip(i, 1, Len(img))]

BlurChannel(img, i, c) ==
    ( At(img, i - 2)[c] + 4 * At(img, i - 1)[c] + 6 * At(img, i)[c]
      + 4 * At(img, i + 1)[c] + At(img, i + 2)[c] + 8 ) \div 16

GaussianBlur(img) ==
    IF Len(img) = 0 THEN << >>
    ELSE [ i \in 1..Len(img) |->
             << BlurChannel(img, i, 1), BlurChannel(img, i, 2),
                BlurChannel(img, i, 3) >> ]

\* lines 7-12: open, optional blur, flatten to the pixel buffer
LoadPixels(img, bl) == IF bl THEN GaussianBlur(img) ELSE img

----------------------------------------------------------------------------
(* np.unique(..., return_counts=True) and np.argmax *)

Range(s) == { s[i] : i \in 1..Len(s) }

RECURSIVE SortedSeq(_)
SortedSeq(S) ==
    IF S = {} THEN << >>
    ELSE LET m == CHOOSE x \in S : \A y \in S : x <= y
         IN  << m >> \o SortedSeq(S \ {m})

RECURSIVE FirstSeen(_)
FirstSeen(s) ==
    IF Len(s) = 0 THEN << >>
    ELSE LET front == FirstSeen(SubSeq(s, 1, Len(s) - 1))
         IN  IF s[Len(s)] \in Range(front) THEN front
             ELSE Append(front, s[Len(s)])

\* the values of s without repetition, in order of first occurrence
UniqueFirstSeen(s) == FirstSeen(s)

\* np.unique: the sorted distinct values of s
UniqueBins(s) == SortedSeq(Range(s))

\* return_counts: the number of occurrences of each unique value
CountsOf(s, u) ==
    [ k \in 1..Len(u) |-> Cardinality({ i \in 1..Len(s) : s[i] = u[k] }) ]

ArgMaxLast(c) ==
    CHOOSE k \in 1..Len(c) :
        /\ \A j \in 1..Len(c) : c[j] <= c[k]
        /\ \A j \in (k + 1)..Len(c) : c[j] < c[k]

\* np.argmax of a non-empty sequence: the first position of the maximum
ArgMax(c) ==
    CHOOSE k \in 1..Len(c) :
        /\ \A j \in 1..Len(c) : c[j] <= c[k]
        /\ \A j \in 1..(k - 1) : c[j] < c[k]

----------------------------------------------------------------------------
(* Boolean-mask indexing and the mean *)

MaskRedOnly(rs, gs, bs, r, g, b) == [ i \in 1..Len(rs) |-> rs[i] = r ]

\* line 36: the mask of the pixels whose three bins are (r, g, b)
MaskOf(rs, gs, bs, r, g, b) ==
    [ i \in 1..Len(rs) |-> rs[i] = r /\ gs[i] = g /\ bs[i] = b ]

RECURSIVE Masked(_, _)
\* pixels[mask]: the pixels at the TRUE positions, in order
Masked(px, m) ==
    IF Len(px) = 0 THEN << >>
    ELSE LET front == Masked(SubSeq(px, 1, Len(px) - 1),
                             SubSeq(m, 1, Len(px) - 1))
         IN  IF m[Len(px)] THEN Append(front, px[Len(px)]) ELSE front

RECURSIVE ChannelSum(_, _)
ChannelSum(px, c) ==
    IF Len(px) = 0 THEN 0
    ELSE px[1][c] + ChannelSum(Tail(px), c)

ChannelMeanNoDivide(px, c) == ChannelSum(px, c)

ChannelMeanOffByOne(px, c) == ChannelSum(px, c) \div (Len(px) + 1)

\* int(mean): the float64 mean of a non-empty cluster of uint8 values,
\* truncated; the sum is exact in float64 and the rounded quotient has the
\* same integer part as the exact one
ChannelMean(px, c) == ChannelSum(px, c) \div Len(px)

----------------------------------------------------------------------------
(* The whole call as a function of its arguments (lines 6-40) *)

Returned(rgb) == [ pc |-> "done", result |-> rgb, error |-> "none" ]
Raised(e) == [ pc |-> "raised", result |-> << >>, error |-> e ]

DominantColor(img, B, bl) ==
    IF B = 0 THEN Raised("ZeroDivisionError")
    ELSE
    LET px  == LoadPixels(img, bl)
        rs  == [ i \in 1..Len(px) |-> ChannelBin(px[i][1], B) ]
        gs  == [ i \in 1..Len(px) |-> ChannelBin(px[i][2], B) ]
        bs  == [ i \in 1..Len(px) |-> ChannelBin(px[i][3], B) ]
        idx == [ i \in 1..Len(px) |-> BinIndexOf(rs[i], gs[i], bs[i], B) ]
        u   == UniqueBins(idx)
        c   == CountsOf(idx, u)
    IN  IF Len(px) = 0 THEN Raised("ValueError")
        ELSE LET d  == Decode(u[ArgMax(c)], B)
                 cl == Masked(px, MaskOf(rs, gs, bs, d[1], d[2], d[3]))
             IN  IF Len(cl) = 0 THEN Raised("ValueError")
                 ELSE Returned(<< ChannelMean(cl, 1), ChannelMean(cl, 2),
                                  ChannelMean(cl, 3) >>)

----------------------------------------------------------------------------
(* State machine of one call *)

\* the state at the entry of the function, for the arguments (img, B, bl)
Entry(img, B, bl) ==
    /\ pc = "load"
    /\ image = img
    /\ bins_per_channel = B
    /\ blur = bl
    /\ pixels = << >>
    /\ r_bins = << >>
    /\ g_bins = << >>
    /\ b_bins = << >>
    /\ bin_index = << >>
    /\ unique_bins = << >>
    /\ counts = << >>
    /\ dom_bin = 0
    /\ rb = 0
    /\ gb = 0
    /\ bb = 0
    /\ mask = << >>
    /\ cluster_pixels = << >>
    /\ result = << >>
    /\ error = "none"

\* any image of up to MaxPixels palette pixels, any tried bin count
Init ==
    \E img \in SeqsUpTo(Palette, MaxPixels), B \in BinsTried, bl \in BOOLEAN :
        Entry(img, B, bl)

\* the images of Init without blur, for the bin counts of OrderBins
InitOrder ==
    \E img \in SeqsUpTo(Palette, MaxPixels), B \in OrderBins :
        Entry(img, B, FALSE)

\* one pixel with equal channels: every channel value, every supported B
InitChannel ==
    \E v \in 0..ChannelMax, B \in BinMin..BinMax, bl \in BOOLEAN :
        Entry(<< <<v, v, v>> >>, B, bl)

\* one pixel for every triple of bins of the lattice, for small supported B
InitLattice ==
    \E B \in BinMin..MaxLatticeBins, bl \in BOOLEAN :
        \E r \in BinEdges(B), g \in BinEdges(B), b \in BinEdges(B) :
            Entry(<< <<r, g, b>> >>, B, bl)

\* lines 7-12
Load ==
    /\ pc = "load"
    /\ pixels' = LoadPixels(image, blur)
    /\ pc' = "quantize"
    /\ UNCHANGED <<image, bins_per_channel, blur, r_bins, g_bins, b_bins,
                   bin_index, unique_bins, counts, dom_bin, rb, gb, bb,
                   mask, cluster_pixels, result, error>>

\* lines 14-21; 256 / 0 raises ZeroDivisionError
Quantize ==
    /\ pc = "quantize"
    /\ IF bins_per_channel = 0
       THEN /\ pc' = "raised"
            /\ error' = "ZeroDivisionError"
            /\ UNCHANGED <<r_bins, g_bins, b_bins>>
       ELSE /\ r_bins' = [ i \in 1..Len(pixels) |->
                             ChannelBin(pixels[i][1], bins_per_channel) ]
            /\ g_bins' = [ i \in 1..Len(pixels) |->
                             ChannelBin(pixels[i][2], bins_per_channel) ]
            /\ b_bins' = [ i \in 1..Len(pixels) |->
                             ChannelBin(pixels[i][3], bins_per_channel) ]
            /\ pc' = "index"
            /\ UNCHANGED error
    /\ UNCHANGED <<image, bins_per_channel, blur, pixels, bin_index,
                   unique_bins, counts, dom_bin, rb, gb, bb,
                   mask, cluster_pixels, result>>

\* lines 23-27
Index ==
    /\ pc = "index"
    /\ bin_index' = [ i \in 1..Len(pixels) |->
                        BinIndexOf(r_bins[i], g_bins[i], b_bins[i],
                                   bins_per_channel) ]
    /\ pc' = "select"
    /\ UNCHANGED <<image, bins_per_channel, blur, pixels, r_bins, g_bins,
                   b_bins, unique_bins, counts, dom_bin, rb, gb, bb,
                   mask, cluster_pixels, result, error>>

\* an empty histogram answered with a default colour
SelectDefaultColour ==
    /\ pc = "select"
    /\ unique_bins' = UniqueBins(bin_index)
    /\ counts' = CountsOf(bin_index, unique_bins')
    /\ IF Len(counts') = 0
       THEN /\ pc' = "done"
            /\ result' = << 0, 0, 0 >>
            /\ UNCHANGED dom_bin
       ELSE /\ dom_bin' = unique_bins'[ArgMax(counts')]
            /\ pc' = "decode"
            /\ UNCHANGED result
    /\ UNCHANGED <<image, bins_per_channel, blur, pixels, r_bins, g_bins,
                   b_bins, bin_index, rb, gb, bb, mask, cluster_pixels,
                   error>>

\* lines 29-30; np.argmax of an empty array raises ValueError
Select ==
    /\ pc = "select"
    /\ unique_bins' = UniqueBins(bin_index)
    /\ counts' = CountsOf(bin_index, unique_bins')
    /\ IF Len(counts') = 0
       THEN /\ pc' = "raised"
            /\ error' = "ValueError"
            /\ UNCHANGED dom_bin
       ELSE /\ dom_bin' = unique_bins'[ArgMax(counts')]
            /\ pc' = "decode"
            /\ UNCHANGED error
    /\ UNCHANGED <<image, bins_per_channel, blur, pixels, r_bins, g_bins,
                   b_bins, bin_index, rb, gb, bb, mask, cluster_pixels,
                   result>>

\* lines 32-34
DecodeBin ==
    /\ pc = "decode"
    /\ rb' = Decode(dom_bin, bins_per_channel)[1]
    /\ gb' = Decode(dom_bin, bins_per_channel)[2]
    /\ bb' = Decode(dom_bin, bins_per_channel)[3]
    /\ pc' = "mask"
    /\ UNCHANGED <<image, bins_per_channel, blur, pixels, r_bins, g_bins,
                   b_bins, bin_index, unique_bins, counts, dom_bin,
                   mask, cluster_pixels, result, error>>

\* lines 36-37
Mask ==
    /\ pc = "mask"
    /\ mask' = MaskOf(r_bins, g_bins, b_bins, rb, gb, bb)
    /\ cluster_pixels' = Masked(pixels, mask')
    /\ pc' = "mean"
    /\ UNCHANGED <<image, bins_per_channel, blur, pixels, r_bins, g_bins,
                   b_bins, bin_index, unique_bins, counts, dom_bin,
                   rb, gb, bb, result, error>>

\* lines 39-40; the mean of no pixels is nan, and int(nan) raises ValueError
Mean ==
    /\ pc = "mean"
    /\ IF Len(cluster_pixels) = 0
       THEN /\ pc' = "raised"
            /\ error' = "ValueError"
            /\ UNCHANGED result
       ELSE /\ result' = << ChannelMean(cluster_pixels, 1),
                            ChannelMean(cluster_pixels, 2),
                            ChannelMean(cluster_pixels, 3) >>
            /\ pc' = "done"
            /\ UNCHANGED error
    /\ UNCHANGED <<image, bins_per_channel, blur, pixels, r_bins, g_bins,
                   b_bins, bin_index, unique_bins, counts, dom_bin,
                   rb, gb, bb, mask, cluster_pixels>>

Next ==
    \/ Load
    \/ Quantize
    \/ Index
    \/ Select
    \/ DecodeBin
    \/ Mask
    \/ Mean

Spec == Init /\ [][Next]_vars

SpecOrder == InitOrder /\ [][Next]_vars

SpecChannel == InitChannel /\ [][Next]_vars

SpecLattice == InitLattice /\ [][Next]_vars

----------------------------------------------------------------------------
(* Properties *)

Terminal == pc \in { "done", "raised" }

\* the bin index has been selected (lines 29-30 done without an exception)
Selected == pc \in { "decode", "mask", "mean", "done" }

Uniform(img) == Len(img) > 0 /\ \A i \in 1..Len(img) : img[i] = img[1]

\* the sequences that are permutations of s
Permuted(s) ==
    { [ i \in 1..Len(s) |-> s[f[i]] ] :
        f \in { g \in [ 1..Len(s) -> 1..Len(s) ] :
                  \A i, j \in 1..Len(s) : g[i] = g[j] => i = j } }

\* number of pixels of the buffer in bin b
Occupancy(b) == Cardinality({ i \in 1..Len(bin_index) : bin_index[i] = b })

\* positions of the pixels of the dominant bin
Members == { i \in 1..Len(bin_index) : bin_index[i] = dom_bin }

RECURSIVE SumOver(_, _)
\* sum of channel c of the pixels at the positions S
SumOver(S, c) ==
    IF S = {} THEN 0
    ELSE LET i == CHOOSE x \in S : TRUE
         IN  pixels[i][c] + SumOver(S \ {i}, c)

\* C1: for a non-empty buffer and a bin count in 4..128 the call returns
\* (raises nothing) and the three returned components are integers in 0..255
C1_ResultInRange ==
    (Len(image) > 0 /\ Supported(bins_per_channel)) =>
        /\ pc # "raised"
        /\ pc = "done" =>
             /\ Len(result) = 3
             /\ \A c \in 1..3 : result[c] \in 0..ChannelMax

C1_Witness ==
    /\ pc = "done"
    /\ Supported(bins_per_channel)
    /\ Len(cluster_pixels) >= 2
    /\ result = << 255, 255, 255 >>

\* C2: an image whose pixels all have one colour yields exactly that colour,
\* for every supported bin count, with blur on or off
C2_SingleColour ==
    (Uniform(image) /\ Supported(bins_per_channel) /\ Terminal) =>
        (pc = "done" /\ result = image[1])

C2_Witness ==
    /\ pc = "done"
    /\ blur
    /\ bins_per_channel = 7
    /\ Len(image) = MaxPixels
    /\ Uniform(image)
    /\ result = << 200, 50, 10 >>

C4_Original ==
    (~ Supported(bins_per_channel) /\ Terminal) =>
        (pc = "raised" /\ error = "InvalidParameterError")

\* C5: with blur off, every permutation of the buffer gives the same triple
\* as the buffer itself, also when several bins tie for the maximum
C5_OrderInvariant ==
    (pc = "done" /\ ~ blur) =>
        \A q \in Permuted(image) :
            DominantColor(q, bins_per_channel, FALSE) = Returned(result)

C5_Witness ==
    /\ pc = "done"
    /\ ~ blur
    /\ Len(unique_bins) >= 2
    /\ counts[1] = counts[2]
    /\ \A k \in 1..Len(counts) : counts[k] <= counts[1]
    /\ bin_index[1] # dom_bin

\* C6: every per-channel bin computed for a channel value in 0..255 and a
\* bin count in 4..128 lies in 0..B-1 (255 with 7 bins: in 0..6)
C6_ChannelBinInRange ==
    (pc \notin { "load", "quantize" } /\ Supported(bins_per_channel)) =>
        \A i \in 1..Len(pixels) :
            /\ r_bins[i] \in 0..(bins_per_channel - 1)
            /\ g_bins[i] \in 0..(bins_per_channel - 1)
            /\ b_bins[i] \in 0..(bins_per_channel - 1)

C6_Witness ==
    /\ pc = "index"
    /\ bins_per_channel = 7
    /\ pixels[1][1] = ChannelMax
    /\ r_bins[1] = 6

\* C7: for a triple of bins in [0,B-1]^3 the bin index lies in [0,B^3), no
\* other triple of the lattice has the same index, and the decoded
\* (rb, gb, bb) is the triple
C7_IndexBijection ==
    LET B == bins_per_channel
        lattice == (0..(B - 1)) \X (0..(B - 1)) \X (0..(B - 1))
    IN  (pc \in { "mask", "mean", "done" } /\ B >= 1 /\ Len(pixels) = 1
           /\ << r_bins[1], g_bins[1], b_bins[1] >> \in lattice) =>
            /\ bin_index[1] \in 0..(B * B * B - 1)
            /\ dom_bin = bin_index[1]
            /\ << rb, gb, bb >> = << r_bins[1], g_bins[1], b_bins[1] >>
            /\ \A t \in lattice :
                 BinIndexOf(t[1], t[2], t[3], B) = bin_index[1] =>
                     t = << r_bins[1], g_bins[1], b_bins[1] >>

C7_Witness ==
    /\ pc = "done"
    /\ bins_per_channel = BinMin
    /\ << rb, gb, bb >> = << 3, 0, 2 >>
    /\ dom_bin = 50

\* C8: the selected bin is occupied, no bin holds more pixels, and among the
\* bins that hold as many it is the one with the lowest index
C8_DominantBin ==
    Selected =>
        /\ Occupancy(dom_bin) >= 1
        /\ \A b \in Range(bin_index) :
             /\ Occupancy(b) <= Occupancy(dom_bin)
             /\ Occupancy(b) = Occupancy(dom_bin) => dom_bin <= b

C8_Witness ==
    /\ pc = "decode"
    /\ \E b \in Range(bin_index) :
         b # dom_bin /\ Occupancy(b) = Occupancy(dom_bin)
    /\ bin_index[1] > dom_bin

\* C9: for a positive bin count the averaged pixels are exactly the pixels
\* whose bin index is the dominant bin, there is at least one, and every
\* returned component is the truncated mean of its channel over them
C9_ClusterMean ==
    (pc \in { "mean", "done" } /\ bins_per_channel >= 1) =>
        /\ { i \in 1..Len(pixels) : mask[i] } = Members
        /\ Len(cluster_pixels) = Cardinality(Members)
        /\ \A p \in Palette \cup Range(pixels) :
             Cardinality({ k \in 1..Len(cluster_pixels) :
                             cluster_pixels[k] = p })
               = Cardinality({ i \in Members : pixels[i] = p })
        /\ Members # {}
        /\ pc = "done" =>
             \A c \in 1..3 :
                 /\ result[c] * Cardinality(Members) <= SumOver(Members, c)
                 /\ SumOver(Members, c)
                      < (result[c] + 1) * Cardinality(Members)

C9_Witness ==
    /\ pc = "done"
    /\ bins_per_channel >= 1
    /\ Cardinality(Members) >= 2
    /\ Cardinality(Members) < Len(pixels)
    /\ SumOver(Members, 1) % Cardinality(Members) # 0

\* C10: for a bin count in 4..128 the returned colour, quantized and
\* combined by the same rules, falls into the selected dominant bin
C10_ResultInDominantBin ==
    (pc = "done" /\ Supported(bins_per_channel)) =>
        BinIndexOf(ChannelBin(result[1], bins_per_channel),
                   ChannelBin(result[2], bins_per_channel),
                   ChannelBin(result[3], bins_per_channel),
                   bins_per_channel) = dom_bin

C10_Witness ==
    /\ pc = "done"
    /\ Supported(bins_per_channel)
    /\ Len(cluster_pixels) >= 2
    /\ \A k \in 1..Len(cluster_pixels) : cluster_pixels[k] # result

====
